---- MODULE Spec2Model ----
(***************************************************************************)
(* A model of the type-modeling repository: the nominal type graph of      *)
(* type_checker/types.py (subtype relation, method resolution, constructor *)
(* defaults) and the expression checking engine of                         *)
(* java_type_checker/expressions.py (static_type / check_types).           *)
(*                                                                         *)
(* Types are objects; an object is identified by its position in `types`   *)
(* (Python compares them by identity).  A type can only name supertypes    *)
(* that were constructed before it, so every graph built through the       *)
(* constructors is acyclic.                                                *)
(***************************************************************************)
EXTENDS Integers, Sequences, FiniteSets, TLC

VARIABLES
    types,      \* the type graph: a sequence of type objects
    call,       \* the last query made on the type graph
    retBool,    \* what is_subtype_of / is_supertype_of returned
    retLookup,  \* what method_named returned or raised
    ast,        \* the expression under check
    outcomes,   \* the outcomes of the successive check_types() calls on ast
    stype,      \* the outcome of the last static_type() call on ast
    heap,       \* list objects: list id -> contents
    objs        \* constructed instances, each holding a reference to a list

vars == <<types, call, retBool, retLookup, ast, outcomes, stype, heap, objs>>

\* ------------------------------------------------------------------ bounds

\* Number of types the graph specification constructs.
MaxTypes == 4

\* Longest argument list of a call or construction.
MaxArgs == 3

\* Number of check_types() calls made on one expression.
MaxCalls == 2

\* Number of instances the aliasing specification constructs.
MaxObjs == 3

\* Longest list the aliasing specification grows.
MaxListLen == 1

\* ------------------------------------------------------------- type graph

TypeNames == <<"A", "B", "C", "D", "E", "F", "G", "H">>

MethodNames == {"m", "n"}

TypeIds == 1..Len(types)

\* JavaMethod(name, argument_types, return_type)
JavaMethod(name, parameter_types, return_type) ==
    [name |-> name, parameter_types |-> parameter_types, return_type |-> return_type]

NoMethods == [n \in {} |-> JavaMethod("", <<>>, 0)]

\* JavaClassOrInterface(name, direct_supertypes, constructor, methods); the
\* methods argument is turned into a mapping from method name to method.
JavaClassOrInterface(name, direct_supertypes, constructor, methods, is_object_type, is_instantiable) ==
    [name |-> name,
     direct_supertypes |-> direct_supertypes,
     constructor |-> constructor,
     methods |-> [n \in {m.name : m \in methods} |-> CHOOSE m \in methods : m.name = n],
     is_object_type |-> is_object_type,
     is_instantiable |-> is_instantiable]

\* JavaType(name, direct_supertypes): a type without constructor or methods.
JavaType(name, direct_supertypes) ==
    [name |-> name,
     direct_supertypes |-> direct_supertypes,
     constructor |-> <<>>,
     methods |-> NoMethods,
     is_object_type |-> FALSE,
     is_instantiable |-> FALSE]

\* Results of a method lookup: the method found, or the exception raised.
Found(method) == [kind |-> "return", msg |-> <<>>, method |-> method]
NoSuchMethod(msg) == [kind |-> "NoSuchMethod", msg |-> msg, method |-> JavaMethod("", <<>>, 0)]

NoLookup == [kind |-> "none", msg |-> <<>>, method |-> JavaMethod("", <<>>, 0)]
NoCall == [op |-> "none", self |-> 0, other |-> 0, name |-> ""]

RECURSIVE IsSubtypeOf(_, _)
RECURSIVE MethodNamed(_, _)

IsSubtypeOfFirstOnly(self, other) ==
    \/ other = self
    \/ /\ Len(types[self].direct_supertypes) > 0
       /\ IsSubtypeOf(types[self].direct_supertypes[1], other)

\* JavaType.is_subtype_of: other == self or any(t.is_subtype_of(other) ...)
IsSubtypeOf(self, other) ==
    \/ other = self
    \/ \E i \in 1..Len(types[self].direct_supertypes) :
           IsSubtypeOf(types[self].direct_supertypes[i], other)

\* JavaType.is_supertype_of
IsSupertypeOf(self, other) == IsSubtypeOf(other, self)

\* The loop of method_named over direct_supertypes[i..]: the first lookup that
\* does not raise NoSuchMethod is returned; when all raise, the receiver raises
\* its own NoSuchMethod.
RECURSIVE SearchSupertypes(_, _, _)
SearchSupertypes(self, name, i) ==
    IF i > Len(types[self].direct_supertypes)
    THEN NoSuchMethod(<<types[self].name, " has no method named ", name>>)
    ELSE LET r == MethodNamed(types[self].direct_supertypes[i], name)
         IN  IF r.kind = "return" THEN r ELSE SearchSupertypes(self, name, i + 1)

\* A lookup that lets the first supertype's NoSuchMethod escape.
MethodNamedUncaught(self, name) ==
    IF name \in DOMAIN types[self].methods
    THEN Found(types[self].methods[name])
    ELSE IF Len(types[self].direct_supertypes) = 0
         THEN NoSuchMethod(<<types[self].name, " has no method named ", name>>)
         ELSE MethodNamed(types[self].direct_supertypes[1], name)

\* A lookup that prefers an inherited method to the type's own.
MethodNamedInheritedFirst(self, name) ==
    LET r == SearchSupertypes(self, name, 1)
    IN  IF r.kind = "return" THEN r
        ELSE IF name \in DOMAIN types[self].methods
             THEN Found(types[self].methods[name])
             ELSE r

\* JavaClassOrInterface.method_named
MethodNamed(self, name) ==
    IF name \in DOMAIN types[self].methods
    THEN Found(types[self].methods[name])
    ELSE SearchSupertypes(self, name, 1)

\* Sequences of at most two distinct, already constructed types.
SupertypeSeqs ==
    {<<>>} \cup {<<a>> : a \in TypeIds}
           \cup {p \in TypeIds \X TypeIds : p[1] # p[2]}

\* ----------------------------------------------- graph specification: actions

\* JavaType.__init__: a new type over existing supertypes.
NewJavaType(supers) ==
    /\ call.op = "none"
    /\ Len(types) < MaxTypes
    /\ types' = Append(types, JavaType(TypeNames[Len(types) + 1], supers))
    /\ UNCHANGED <<call, retBool, retLookup, ast, outcomes, stype, heap, objs>>

\* JavaClassOrInterface.__init__: a new type over existing supertypes, which
\* declares method "m" (returning the new type itself) or declares nothing.
NewType(supers, declares) ==
    /\ call.op = "none"
    /\ Len(types) < MaxTypes
    /\ LET k == Len(types) + 1
           ms == IF declares THEN {JavaMethod("m", <<>>, k)} ELSE {}
       IN  types' = Append(types,
                JavaClassOrInterface(TypeNames[k], supers, <<>>, ms, TRUE, TRUE))
    /\ UNCHANGED <<call, retBool, retLookup, ast, outcomes, stype, heap, objs>>

IsSubtypeOfCall(self, other) ==
    /\ call.op = "none"
    /\ call' = [op |-> "is_subtype_of", self |-> self, other |-> other, name |-> ""]
    /\ retBool' = IsSubtypeOf(self, other)
    /\ retLookup' = NoLookup
    /\ UNCHANGED <<types, ast, outcomes, stype, heap, objs>>

IsSupertypeOfCall(self, other) ==
    /\ call.op = "none"
    /\ call' = [op |-> "is_supertype_of", self |-> self, other |-> other, name |-> ""]
    /\ retBool' = IsSupertypeOf(self, other)
    /\ retLookup' = NoLookup
    /\ UNCHANGED <<types, ast, outcomes, stype, heap, objs>>

MethodNamedCall(self, name) ==
    /\ call.op = "none"
    /\ call' = [op |-> "method_named", self |-> self, other |-> 0, name |-> name]
    /\ retLookup' = MethodNamed(self, name)
    /\ retBool' = FALSE
    /\ UNCHANGED <<types, ast, outcomes, stype, heap, objs>>

\* The caller takes the result of the query; the next operation can start.
Return ==
    /\ call.op # "none"
    /\ call' = NoCall
    /\ retBool' = FALSE
    /\ retLookup' = NoLookup
    /\ UNCHANGED <<types, ast, outcomes, stype, heap, objs>>

NoExpr == [kind |-> "none"]
NoStaticType == [kind |-> "none", msg |-> <<>>, value |-> 0]

Init ==
    /\ types = <<>>
    /\ call = NoCall
    /\ retBool = FALSE
    /\ retLookup = NoLookup
    /\ ast = NoExpr
    /\ outcomes = <<>>
    /\ stype = NoStaticType
    /\ heap = <<>>
    /\ objs = <<>>

\* Subtype queries on graphs of plain types.
Next ==
    \/ \E supers \in SupertypeSeqs : NewJavaType(supers)
    \/ \E self \in TypeIds, other \in TypeIds : IsSubtypeOfCall(self, other)
    \/ \E self \in TypeIds, other \in TypeIds : IsSupertypeOfCall(self, other)
    \/ Return

Spec == Init /\ [][Next]_vars

\* Method lookups on graphs of classes and interfaces.
NextMethods ==
    \/ \E supers \in SupertypeSeqs, declares \in BOOLEAN : NewType(supers, declares)
    \/ \E self \in TypeIds, name \in MethodNames : MethodNamedCall(self, name)
    \/ Return

SpecMethods == Init /\ [][NextMethods]_vars

\* ------------------------------------------------------------- expressions

\* The type graph the expressions are checked against: a root object type, an
\* abstract object type with a two-parameter method, a concrete subtype of it
\* with a parameterless method, and a primitive type.
Object == 1
Graphics == 2
Rectangle == 3
INT == 4

Fixture ==
    << JavaClassOrInterface("Object", <<>>, <<>>, {}, TRUE, TRUE),
       JavaClassOrInterface("Graphics", <<Object>>, <<>>,
            {JavaMethod("scale", <<Graphics, INT>>, Graphics)}, TRUE, FALSE),
       JavaClassOrInterface("Rectangle", <<Graphics>>, <<INT, INT>>,
            {JavaMethod("size", <<>>, INT)}, TRUE, TRUE),
       JavaType("int", <<>>) >>

\* str(n) for the counts that occur in messages.
Str(n) == <<"0", "1", "2", "3", "4", "5", "6", "7", "8", "9">>[n + 1]

\* ", ".join(names), as the sequence of its pieces.
RECURSIVE Join(_)
Join(names) ==
    IF Len(names) = 0 THEN <<>>
    ELSE IF Len(names) = 1 THEN names
    ELSE <<Head(names), ", ">> \o Join(Tail(names))

\* Expression nodes.
JavaVariable(name, declared_type) ==
    [kind |-> "JavaVariable", name |-> name, declared_type |-> declared_type]
JavaLiteral(value, type) ==
    [kind |-> "JavaLiteral", value |-> value, type |-> type]
JavaAssignment(lhs, rhs) ==
    [kind |-> "JavaAssignment", lhs |-> lhs, rhs |-> rhs]
JavaMethodCall(receiver, method_name, args) ==
    [kind |-> "JavaMethodCall", receiver |-> receiver, method_name |-> method_name,
     args |-> args]
JavaConstructorCall(instantiated_type, args) ==
    [kind |-> "JavaConstructorCall", instantiated_type |-> instantiated_type,
     args |-> args]

\* The outcome of an operation: a returned value (a type, or 0 for None) or
\* the exception raised, with its message as the sequence of its pieces.
Returned(value) == [kind |-> "return", msg |-> <<>>, value |-> value]
Raise(kind, msg) == [kind |-> kind, msg |-> msg, value |-> 0]

\* JavaTypeError and its subclasses.
TypeErrorKinds ==
    {"JavaTypeError", "JavaTypeMismatchError", "JavaArgumentCountError",
     "JavaIllegalInstantiationError", "NoSuchJavaMethod"}

RECURSIVE StaticType(_)
RECURSIVE CheckTypes(_)

\* JavaMethodCall.static_type
MethodCallStaticType(e) ==
    LET receiver_type == StaticType(e.receiver)
    IN  IF receiver_type.kind # "return" THEN receiver_type
        ELSE IF ~types[receiver_type.value].is_object_type
        THEN Raise("JavaTypeError",
                   <<"Cannot call method ", e.method_name, " on primitive type ",
                     types[receiver_type.value].name>>)
        ELSE LET method == MethodNamed(receiver_type.value, e.method_name)
             IN  IF method.kind # "return"
                 THEN Raise("JavaTypeError", method.msg)
                 ELSE Returned(method.method.return_type)

\* static_type() of each node class; JavaConstructorCall inherits
\* JavaExpression.static_type.
StaticType(e) ==
    CASE e.kind = "JavaVariable" -> Returned(e.declared_type)
      [] e.kind = "JavaLiteral" -> Returned(e.type)
      [] e.kind = "JavaAssignment" -> StaticType(e.lhs)
      [] e.kind = "JavaMethodCall" -> MethodCallStaticType(e)
      [] e.kind = "JavaConstructorCall" ->
            Raise("NotImplementedError",
                  <<"JavaConstructorCall", " must override static_type()">>)

\* The names of the static types of args[i..], or the first exception that
\* static_type() raises on one of them.
RECURSIVE ActualTypeNames(_, _)
ActualTypeNames(args, i) ==
    IF i > Len(args) THEN Returned(<<>>)
    ELSE LET t == StaticType(args[i])
         IN  IF t.kind # "return" THEN t
             ELSE LET rest == ActualTypeNames(args, i + 1)
                  IN  IF rest.kind # "return" THEN rest
                      ELSE Returned(<<types[t.value].name>> \o rest.value)

\* The type-mismatch report of a method call (expressions.py lines 190-196).
ArgumentMismatch(e, receiver_type, method) ==
    LET expected_types == [i \in 1..Len(method.parameter_types) |->
                              types[method.parameter_types[i]].name]
        actual_types == ActualTypeNames(e.args, 1)
    IN  IF actual_types.kind # "return" THEN actual_types
        ELSE Raise("JavaTypeMismatchError",
                   <<types[receiver_type].name, ".", e.method_name,
                     "() expects arguments of type (">>
                   \o Join(expected_types) \o <<"), but got (">>
                   \o Join(actual_types.value) \o <<")">>)

Min(a, b) == IF a < b THEN a ELSE b

\* The loop over zip(self.args, method.parameter_types), from position i.
RECURSIVE CheckArgs(_, _, _, _)
CheckArgs(e, receiver_type, method, i) ==
    IF i > Min(Len(e.args), Len(method.parameter_types)) THEN Returned(0)
    ELSE LET checked == CheckTypes(e.args[i])
         IN  IF checked.kind # "return" THEN checked
             ELSE LET arg_type == StaticType(e.args[i])
                  IN  IF arg_type.kind # "return" THEN arg_type
                      ELSE IF ~IsSubtypeOf(arg_type.value, method.parameter_types[i])
                      THEN ArgumentMismatch(e, receiver_type, method)
                      ELSE CheckArgs(e, receiver_type, method, i + 1)

\* The report of an assignment whose right side does not fit its left side.
AssignmentMismatch(e, lhs_type, rhs_type) ==
    IF e.lhs.kind = "JavaVariable"
    THEN Raise("JavaTypeMismatchError",
               <<"Cannot assign ", types[rhs_type].name, " to variable ", e.lhs.name,
                 " of type ", types[lhs_type].name>>)
    ELSE Raise("JavaTypeMismatchError",
               <<"Cannot assign ", types[rhs_type].name, " to ", types[lhs_type].name>>)

\* An assignment check that tests the subtype relation the wrong way round.
AssignmentCheckTypesReversed(e) ==
    LET lhs_checked == CheckTypes(e.lhs)
        rhs_checked == CheckTypes(e.rhs)
        lhs_type == StaticType(e.lhs)
        rhs_type == StaticType(e.rhs)
    IN  IF lhs_checked.kind # "return" THEN lhs_checked
        ELSE IF rhs_checked.kind # "return" THEN rhs_checked
        ELSE IF lhs_type.kind # "return" THEN lhs_type
        ELSE IF rhs_type.kind # "return" THEN rhs_type
        ELSE IF ~IsSubtypeOf(lhs_type.value, rhs_type.value)
        THEN AssignmentMismatch(e, lhs_type.value, rhs_type.value)
        ELSE Returned(0)

\* JavaAssignment.check_types
AssignmentCheckTypes(e) ==
    LET lhs_checked == CheckTypes(e.lhs)
        rhs_checked == CheckTypes(e.rhs)
        lhs_type == StaticType(e.lhs)
        rhs_type == StaticType(e.rhs)
    IN  IF lhs_checked.kind # "return" THEN lhs_checked
        ELSE IF rhs_checked.kind # "return" THEN rhs_checked
        ELSE IF lhs_type.kind # "return" THEN lhs_type
        ELSE IF rhs_type.kind # "return" THEN rhs_type
        ELSE IF ~IsSubtypeOf(rhs_type.value, lhs_type.value)
        THEN AssignmentMismatch(e, lhs_type.value, rhs_type.value)
        ELSE Returned(0)

\* A method-call check without the argument-count test.
MethodCallCheckTypesNoCount(e) ==
    LET receiver_checked == CheckTypes(e.receiver)
        receiver_type == StaticType(e.receiver)
    IN  IF receiver_checked.kind # "return" THEN receiver_checked
        ELSE IF receiver_type.kind # "return" THEN receiver_type
        ELSE IF ~types[receiver_type.value].is_object_type
        THEN Raise("NoSuchJavaMethod",
                   <<"Type ", types[receiver_type.value].name, " does not have methods">>)
        ELSE LET method == MethodNamed(receiver_type.value, e.method_name)
             IN  IF method.kind # "return"
                 THEN Raise("NoSuchJavaMethod", method.msg)
                 ELSE CheckArgs(e, receiver_type.value, method.method, 1)

\* JavaMethodCall.check_types
MethodCallCheckTypes(e) ==
    LET receiver_checked == CheckTypes(e.receiver)
        receiver_type == StaticType(e.receiver)
    IN  IF receiver_checked.kind # "return" THEN receiver_checked
        ELSE IF receiver_type.kind # "return" THEN receiver_type
        ELSE IF ~types[receiver_type.value].is_object_type
        THEN Raise("NoSuchJavaMethod",
                   <<"Type ", types[receiver_type.value].name, " does not have methods">>)
        ELSE LET method == MethodNamed(receiver_type.value, e.method_name)
             IN  IF method.kind # "return"
                 THEN Raise("NoSuchJavaMethod", method.msg)
                 ELSE LET expected_arg_count == Len(method.method.parameter_types)
                          actual_arg_count == Len(e.args)
                      IN  IF expected_arg_count # actual_arg_count
                          THEN Raise("JavaArgumentCountError",
                                     <<"Wrong number of arguments for ",
                                       types[receiver_type.value].name, ".",
                                       e.method_name, "(): expected ",
                                       Str(expected_arg_count), ", got ",
                                       Str(actual_arg_count)>>)
                          ELSE CheckArgs(e, receiver_type.value, method.method, 1)

\* check_types() of each node class; JavaConstructorCall inherits
\* JavaExpression.check_types.
CheckTypes(e) ==
    CASE e.kind = "JavaVariable" -> Returned(0)
      [] e.kind = "JavaLiteral" -> Returned(0)
      [] e.kind = "JavaAssignment" -> AssignmentCheckTypes(e)
      [] e.kind = "JavaMethodCall" -> MethodCallCheckTypes(e)
      [] e.kind = "JavaConstructorCall" ->
            Raise("NotImplementedError",
                  <<"JavaConstructorCall", " must override check_types()">>)

\* ------------------------------------------------ the expressions checked

SeqsUpTo(S, n) == UNION {[1..k -> S] : k \in 0..n}

Leaves ==
    {JavaVariable("g", Graphics), JavaVariable("n", INT),
     JavaLiteral("rect", Rectangle), JavaLiteral("1", INT)}

\* Parameterless calls: one well typed, one on a primitive, one unresolved.
InnerCalls ==
    {JavaMethodCall(r, "size", <<>>) :
        r \in {JavaLiteral("rect", Rectangle), JavaVariable("n", INT),
               JavaVariable("g", Graphics)}}

Operands == Leaves \cup InnerCalls

CallNames == {"scale", "size", "nope"}

Asts ==
    Leaves
    \cup {JavaMethodCall(r, nm, args) :
             r \in Operands, nm \in CallNames, args \in SeqsUpTo(Operands, MaxArgs)}
    \cup {JavaAssignment(l, r) : l \in Operands, r \in Operands}
    \cup {JavaConstructorCall(t, args) :
             t \in {Graphics, Rectangle, INT}, args \in SeqsUpTo(Leaves, MaxArgs)}

\* ------------------------------------------ expression specification: actions

InitExpr ==
    /\ types = Fixture
    /\ call = NoCall
    /\ retBool = FALSE
    /\ retLookup = NoLookup
    /\ ast \in Asts
    /\ outcomes = <<>>
    /\ stype = NoStaticType
    /\ heap = <<>>
    /\ objs = <<>>

\* A check that uses up the argument list of the method call it checks.
CheckTypesCallConsuming ==
    /\ Len(outcomes) < MaxCalls
    /\ outcomes' = Append(outcomes, CheckTypes(ast))
    /\ ast' = IF ast.kind = "JavaMethodCall" THEN [ast EXCEPT !.args = <<>>] ELSE ast
    /\ UNCHANGED <<types, call, retBool, retLookup, stype, heap, objs>>

\* ast.check_types(): the outcome is recorded; nothing else is assigned.
CheckTypesCall ==
    /\ Len(outcomes) < MaxCalls
    /\ outcomes' = Append(outcomes, CheckTypes(ast))
    /\ UNCHANGED <<types, call, retBool, retLookup, ast, stype, heap, objs>>

\* ast.static_type()
StaticTypeCall ==
    /\ stype.kind = "none"
    /\ stype' = StaticType(ast)
    /\ UNCHANGED <<types, call, retBool, retLookup, ast, outcomes, heap, objs>>

NextExpr ==
    \/ CheckTypesCall
    \/ StaticTypeCall

SpecExpr == InitExpr /\ [][NextExpr]_vars

\* ------------------------------------------------- default argument lists

\* The list objects that the `= []` defaults create once, when the functions
\* are defined: every call that takes a default receives the same object.
DefaultConstructorArgs == 1
DefaultTypeSupertypes == 2
DefaultClassSupertypes == 3
DefaultMethodArgs == 4

Classes == {"JavaConstructor", "JavaType", "JavaClassOrInterface", "JavaMethod"}

\* The default list of each class's sequence parameter.  JavaClassOrInterface
\* passes its own default on to JavaType.__init__.
DefaultList(cls) ==
    CASE cls = "JavaConstructor" -> DefaultConstructorArgs
      [] cls = "JavaType" -> DefaultTypeSupertypes
      [] cls = "JavaClassOrInterface" -> DefaultClassSupertypes
      [] cls = "JavaMethod" -> DefaultMethodArgs

InitAlias ==
    /\ types = <<>>
    /\ call = NoCall
    /\ retBool = FALSE
    /\ retLookup = NoLookup
    /\ ast = NoExpr
    /\ outcomes = <<>>
    /\ stype = NoStaticType
    /\ heap = <<<<>>, <<>>, <<>>, <<>>>>
    /\ objs = <<>>

\* cls(...): the instance stores the list it was given (a list the caller
\* has just built) or, when none was given, the default list of its class.
Construct(cls, given) ==
    /\ Len(objs) < MaxObjs
    /\ IF given
       THEN /\ heap' = Append(heap, <<>>)
            /\ objs' = Append(objs, [cls |-> cls, list |-> Len(heap) + 1])
       ELSE /\ heap' = heap
            /\ objs' = Append(objs, [cls |-> cls, list |-> DefaultList(cls)])
    /\ UNCHANGED <<types, call, retBool, retLookup, ast, outcomes, stype>>

\* instance.direct_supertypes.append(x) / instance.argument_types.append(x)
AppendTo(i, x) ==
    /\ Len(heap[objs[i].list]) < MaxListLen
    /\ heap' = [heap EXCEPT ![objs[i].list] = Append(@, x)]
    /\ UNCHANGED <<types, call, retBool, retLookup, ast, outcomes, stype, objs>>

NextAlias ==
    \/ \E cls \in Classes, given \in BOOLEAN : Construct(cls, given)
    \/ \E i \in 1..Len(objs), x \in 1..Len(objs) : AppendTo(i, x)

SpecAlias == InitAlias /\ [][NextAlias]_vars

\* The sequence seen through instance i.
SequenceOf(i) == heap[objs[i].list]

\* C10: no two distinct instances share a sequence object, so an append
\* through one instance never changes the sequence seen through another.
C10_NoSharedSequence ==
    /\ \A i, j \in 1..Len(objs) : i # j => objs[i].list # objs[j].list
    /\ [][\A i, j \in 1..Len(objs) :
             (i # j /\ objs' = objs /\ SequenceOf(i)' # SequenceOf(i))
                => SequenceOf(j)' = SequenceOf(j)]_vars

\* ------------------------------------------------------- claims on the graph

\* The types reachable from the types of S in at most k direct-supertype steps.
RECURSIVE ReachSet(_, _)
ReachSet(S, k) ==
    IF k = 0 THEN S
    ELSE ReachSet(S \cup UNION {{types[a].direct_supertypes[i] :
                                      i \in 1..Len(types[a].direct_supertypes)} : a \in S},
                  k - 1)

\* self itself and everything reachable from it over direct-supertype edges.
SelfAndAncestors(self) ==
    ReachSet({self}, Len(types))

DirectSupertypes(self) ==
    {types[self].direct_supertypes[i] : i \in 1..Len(types[self].direct_supertypes)}

\* C1: A.is_subtype_of(B) and B.is_supertype_of(A) both return true exactly
\* when B is A or B is reachable from A over one or more direct-supertype
\* edges; the relation is reflexive and transitive.
C1_SubtypeIsReachability ==
    /\ call.op = "is_subtype_of" =>
          /\ retBool = (call.other \in SelfAndAncestors(call.self))
          /\ retBool = IsSupertypeOf(call.other, call.self)
          /\ (call.other = call.self => retBool)
          /\ \A c \in TypeIds : (retBool /\ IsSubtypeOf(call.other, c)) => IsSubtypeOf(call.self, c)
    /\ call.op = "is_supertype_of" =>
          retBool = (call.self \in SelfAndAncestors(call.other))

\* An indirect subtype was found: other is an ancestor but no direct supertype.
C1_Witness ==
    /\ call.op = "is_subtype_of"
    /\ retBool
    /\ call.other # call.self
    /\ call.other \notin DirectSupertypes(call.self)
    /\ \E s \in TypeIds : s # call.self /\ ~IsSubtypeOf(s, call.self) /\ ~IsSubtypeOf(call.self, s)
                          /\ IsSubtypeOf(s, call.other)

\* ------------------------------------------------- claims on method lookup

\* The types visited by a depth-first, left-to-right walk from self, in the
\* order of their first visit or any later one (a type reached twice is
\* listed twice).
RECURSIVE Preorder(_)
RECURSIVE PreorderOfAll(_)
Preorder(self) == <<self>> \o PreorderOfAll(types[self].direct_supertypes)
PreorderOfAll(ts) ==
    IF ts = <<>> THEN <<>> ELSE Preorder(Head(ts)) \o PreorderOfAll(Tail(ts))

Declares(t, name) == name \in DOMAIN types[t].methods

\* Positions of the walk from self at which name is declared.
DeclaringPositions(self, name) ==
    {i \in 1..Len(Preorder(self)) : Declares(Preorder(self)[i], name)}

FirstDeclaring(self, name) ==
    Preorder(self)[CHOOSE i \in DeclaringPositions(self, name) :
                      \A j \in DeclaringPositions(self, name) : i <= j]

\* C2: method_named returns the type's own method when it declares one, and
\* otherwise the first match of a depth-first search of the direct
\* supertypes in declared order.
C2_MethodResolutionOrder ==
    (call.op = "method_named" /\ DeclaringPositions(call.self, call.name) # {}) =>
        /\ retLookup.kind = "return"
        /\ retLookup.method =
              types[FirstDeclaring(call.self, call.name)].methods[call.name]
        /\ Declares(call.self, call.name) =>
              retLookup.method = types[call.self].methods[call.name]

\* Two branches declare the name, the receiver does not, and the first branch
\* only inherits it: the result comes from the first branch's ancestor.
C2_Witness ==
    /\ call.op = "method_named"
    /\ ~Declares(call.self, call.name)
    /\ Len(types[call.self].direct_supertypes) = 2
    /\ LET b1 == types[call.self].direct_supertypes[1]
           b2 == types[call.self].direct_supertypes[2]
       IN  /\ ~Declares(b1, call.name)
           /\ Declares(b2, call.name)
           /\ retLookup.kind = "return"
           /\ retLookup.method # types[b2].methods[call.name]

Contains(msg, token) == \E i \in 1..Len(msg) : msg[i] = token

\* C3: when neither the type nor any ancestor declares the name, method_named
\* raises NoSuchMethod, and the message names the type the lookup started on
\* and the method name, and no ancestor.
C3_NoSuchMethodNamesReceiver ==
    (call.op = "method_named" /\ DeclaringPositions(call.self, call.name) = {}) =>
        /\ retLookup.kind = "NoSuchMethod"
        /\ Contains(retLookup.msg, types[call.self].name)
        /\ Contains(retLookup.msg, call.name)
        /\ \A t \in TypeIds \ {call.self} : ~Contains(retLookup.msg, types[t].name)

\* A failed lookup that searched two supertypes and an indirect ancestor.
C3_Witness ==
    /\ call.op = "method_named"
    /\ retLookup.kind = "NoSuchMethod"
    /\ Len(types[call.self].direct_supertypes) = 2
    /\ \E a \in SelfAndAncestors(call.self) :
           a # call.self /\ a \notin DirectSupertypes(call.self)

\* ------------------------------------------------- claims on expressions

Passes(e) == CheckTypes(e).kind = "return"

\* msg holds the pieces of part, adjacent and in order.
ContainsSeq(msg, part) ==
    \E k \in 0..(Len(msg) - Len(part)) : SubSeq(msg, k + 1, k + Len(part)) = part

TypeOf(e) == StaticType(e).value

\* C4: for an assignment whose two sides pass check_types(), check_types()
\* succeeds exactly when the right side's static type is a subtype of the left
\* side's; otherwise it raises a type mismatch whose message holds both type
\* names and, for a variable on the left, its name; static_type() is the left
\* side's static type in both cases.
C4_AssignmentRule ==
    (ast.kind = "JavaAssignment" /\ Passes(ast.lhs) /\ Passes(ast.rhs)) =>
        /\ Len(outcomes) >= 1 =>
              IF TypeOf(ast.lhs) \in SelfAndAncestors(TypeOf(ast.rhs))
              THEN outcomes[1] = Returned(0)
              ELSE /\ outcomes[1].kind = "JavaTypeMismatchError"
                   /\ Contains(outcomes[1].msg, types[TypeOf(ast.lhs)].name)
                   /\ Contains(outcomes[1].msg, types[TypeOf(ast.rhs)].name)
                   /\ ast.lhs.kind = "JavaVariable" =>
                          Contains(outcomes[1].msg, ast.lhs.name)
        /\ stype.kind # "none" => stype = Returned(TypeOf(ast.lhs))

\* An unrelated type was assigned to a variable, and static_type() was asked.
C4_Witness ==
    /\ ast.kind = "JavaAssignment"
    /\ Passes(ast.lhs) /\ Passes(ast.rhs)
    /\ ast.lhs.kind = "JavaVariable"
    /\ ast.rhs.kind = "JavaMethodCall"
    /\ Len(outcomes) >= 1
    /\ outcomes[1].kind = "JavaTypeMismatchError"
    /\ stype.kind = "return"

ArgsPass(e) == \A i \in 1..Len(e.args) : Passes(e.args[i])

ParameterTypes(t, name) == types[FirstDeclaring(t, name)].methods[name].parameter_types

NamesOf(ts) == [i \in 1..Len(ts) |-> types[ts[i]].name]

\* C5: check_types() on a method call with well-typed receiver and arguments
\* reports the first failing rule of: receiver not an object type; no method
\* of that name; argument count differs (expected = parameter count, got =
\* argument count); some argument type is no subtype of its parameter type
\* (both full type lists in the message); and succeeds when none fails.
C5_MethodCallRuleOrder ==
    (ast.kind = "JavaMethodCall" /\ Len(outcomes) >= 1
        /\ Passes(ast.receiver) /\ ArgsPass(ast)) =>
        LET o == outcomes[1]
            rt == TypeOf(ast.receiver)
        IN  IF ~types[rt].is_object_type
            THEN o.kind = "NoSuchJavaMethod" /\ Contains(o.msg, types[rt].name)
            ELSE IF DeclaringPositions(rt, ast.method_name) = {}
            THEN /\ o.kind = "NoSuchJavaMethod"
                 /\ Contains(o.msg, types[rt].name)
                 /\ Contains(o.msg, ast.method_name)
            ELSE LET params == ParameterTypes(rt, ast.method_name)
                 IN  IF Len(params) # Len(ast.args)
                     THEN /\ o.kind = "JavaArgumentCountError"
                          /\ ContainsSeq(o.msg, <<"(): expected ", Str(Len(params)),
                                                  ", got ", Str(Len(ast.args))>>)
                     ELSE IF \E i \in 1..Len(params) :
                                 params[i] \notin SelfAndAncestors(TypeOf(ast.args[i]))
                     THEN /\ o.kind = "JavaTypeMismatchError"
                          /\ ContainsSeq(o.msg,
                                <<"() expects arguments of type (">>
                                \o Join(NamesOf(params)) \o <<"), but got (">>
                                \o Join(NamesOf([i \in 1..Len(ast.args) |->
                                                    TypeOf(ast.args[i])]))
                                \o <<")">>)
                     ELSE o = Returned(0)

\* A well-typed call argument in second place, after a mismatching first one.
C5_Witness ==
    /\ ast.kind = "JavaMethodCall"
    /\ Passes(ast.receiver) /\ ArgsPass(ast)
    /\ Len(outcomes) >= 1
    /\ outcomes[1].kind = "JavaTypeMismatchError"
    /\ Len(ast.args) = 2
    /\ TypeOf(ast.args[1]) = INT
    /\ TypeOf(ast.args[2]) = Graphics

\* C6: static_type() validates nothing and never raises: on every node,
\* also one on which check_types() fails, it returns a type.
C6_StaticTypeNeverRaises ==
    /\ stype.kind \notin TypeErrorKinds
    /\ stype.kind # "none" => stype.kind = "return"

Children(e) ==
    CASE e.kind = "JavaAssignment" -> {e.lhs, e.rhs}
      [] e.kind = "JavaMethodCall" ->
            {e.receiver} \cup {e.args[i] : i \in 1..Len(e.args)}
      [] e.kind = "JavaConstructorCall" -> {e.args[i] : i \in 1..Len(e.args)}
      [] OTHER -> {}

\* C7: every child is checked before the node's own constraint is evaluated:
\* when some child is ill typed, the error raised is a child's error, never
\* one the parent reports.
C7_ChildErrorsFirst ==
    (Len(outcomes) >= 1 /\ \E c \in Children(ast) : ~Passes(c)) =>
        outcomes[1] \in {CheckTypes(c) : c \in {d \in Children(ast) : ~Passes(d)}}

\* What C8 states check_types() does on a constructor call.
ConstructorCallExpected(e) ==
    LET params == types[e.instantiated_type].constructor
    IN  IF ~types[e.instantiated_type].is_instantiable
        THEN "JavaIllegalInstantiationError"
        ELSE IF Len(params) # Len(e.args) THEN "JavaArgumentCountError"
        ELSE IF \E i \in 1..Len(params) :
                    params[i] \notin SelfAndAncestors(TypeOf(e.args[i]))
        THEN "JavaTypeMismatchError"
        ELSE "return"

\* C8: on a constructor call static_type() returns the instantiated type, and
\* check_types() raises illegal instantiation, else argument count, else type
\* mismatch, else succeeds.
C8_ConstructorCallRule ==
    ast.kind = "JavaConstructorCall" =>
        /\ stype.kind # "none" => stype = Returned(ast.instantiated_type)
        /\ Len(outcomes) >= 1 => outcomes[1].kind = ConstructorCallExpected(ast)

====
